---- MODULE Spec2Model ----
(***************************************************************************)
(* Treasure Sniffer backend: the eBay scout (services/ebay_scout.py) and   *)
(* the deal decision engine and describe handler (main.py); the SQLite     *)
(* tables of db.py with bind_license_to_device, and the usage limits of    *)
(* services/limits.py, called by concurrent requests.                      *)
(*                                                                         *)
(* Money.  Python floats are modelled by exact fixed-point integers:       *)
(*   - "cents"  : 1/100 USD   (asking price, resale range, profits)        *)
(*   - "e4"     : 1/10000 USD (net resale after a whole-percent fee, and   *)
(*                 parsed listing prices with up to four decimals)         *)
(* fees_pct and target_roi are whole percents (0.13 -> 13, 0.70 -> 70).    *)
(* round() of a float that lies exactly between two candidates depends on  *)
(* the binary representation error of the operands, so a tie is modelled   *)
(* as a choice between both neighbours (RoundSet); every other value       *)
(* rounds to its unique nearest neighbour.                                 *)
(*                                                                         *)
(* An optional value (Python None) is the empty sequence, a present value  *)
(* v is <<v>>.  Text is a sequence of one-character strings.               *)
(***************************************************************************)
EXTENDS Integers, Sequences, FiniteSets, TLC

VARIABLES
    din,        \* arguments of the current _deal_math call (None before one)
    dout,       \* DealAnalysis returned by _deal_math (None before it returns)
    web,        \* the marketplace: the results page behind every search URL
    scin,       \* arguments of the ebay_scout call (None when it is not called)
    sc,         \* frame of ebay_scout: its locals and where it stands
    sess,       \* frame of the running _search_ebay call
    report,     \* the dict ebay_scout returned (None before it returns)
    log,        \* history: how each finished session ended, in call order
    req,        \* the POST /api/describe request (None when there is none)
    desc,       \* frame of describe: its locals and where it stands
    response,   \* what describe returned (None before it returns)
    ptext,      \* the text handed to _parse_price_to_usd
    pout,       \* <<its result>> once it has returned, <<>> before
    licenses,   \* table licenses: license_key -> row (None when absent)
    device_email, \* table device_email: device_id -> email (None when absent)
    usage_total,  \* table usage_total: device_id -> total_count (None when absent)
    usage_daily,  \* table usage_daily of the current day: device_id -> count
    writer,     \* the connection holding the write lock of the database, 0 if none
    bind,       \* frame of each running bind_license_to_device call
    bindlog,    \* history: what the bind_license_to_device calls returned
    lim         \* frame of each request going through check_limit / register_usage

dealVars == <<din, dout>>
scoutVars == <<web, scin, sc, sess, report, log>>
descVars == <<req, desc, response>>
parseVars == <<ptext, pout>>
tableVars == <<licenses, device_email, usage_total, usage_daily, writer>>
dbVars == <<tableVars, bind, bindlog, lim>>
vars == <<dealVars, scoutVars, descVars, parseVars, dbVars>>

None == <<>>
Some(v) == <<v>>
IsNone(o) == o = <<>>
Val(o) == o[1]

Max(a, b) == IF a >= b THEN a ELSE b
Abs(a) == IF a >= 0 THEN a ELSE 0 - a

(* round(n/d) for d > 0: the nearest integer(s); two of them on a tie.      *)
RoundSet(n, d) ==
    LET q == n \div d
        r == n - q * d
    IN  IF 2 * r < d THEN {q}
        ELSE IF 2 * r > d THEN {q + 1}
        ELSE {q, q + 1}

(* Faulty rounding: the offer is rounded up to the next whole dollar.       *)
NiceFloorRoundsUp(n, d) ==
    LET up == (n + d - 1) \div d
    IN  IF up >= 20 THEN (up \div 5) * 5 ELSE up

(* Faulty rounding: the multiple-of-5 rule applied below 20 as well.        *)
NiceFloorAlwaysFive(n, d) ==
    ((n \div d) \div 5) * 5

(* float(int(x // 5) * 5) if x >= 20 else float(int(x)), for x = n/d >= 0,  *)
(* in whole dollars.                                                        *)
NiceFloor(n, d) ==
    LET fl == n \div d
    IN  IF fl >= 20 THEN (fl \div 5) * 5 ELSE fl

(* Faulty buffer: the low-risk base is never applied.                      *)
BufferNoLowBase(risk_level, confidence) ==
    LET base2 == IF risk_level = "high" THEN 30 ELSE 15
    IN  IF confidence = "low" THEN base2 + 10 ELSE base2

(* Faulty buffer: low confidence widens only a buffer risk has not widened. *)
BufferExclusive(risk_level, confidence) ==
    LET base1 == IF risk_level = "low" THEN 10 ELSE 15
    IN  IF risk_level = "high" THEN 30
        ELSE IF confidence = "low" THEN base1 + 10 ELSE base1

(* _buffer_usd, in whole dollars *)
_buffer_usd(risk_level, confidence) ==
    LET base0 == 15
        base1 == IF risk_level = "low" THEN 10 ELSE base0
        base2 == IF risk_level = "high" THEN 30 ELSE base1
    IN  IF confidence = "low" THEN base2 + 10 ELSE base2

(* resale_range is a pair <<low, high>> in cents, or anything float()       *)
(* rejects (modelled by Malformed), which the except clause turns to 0, 0.  *)
Malformed == <<"n/a">>
RangeLow(resale_range) ==
    IF resale_range = Malformed THEN 0 ELSE resale_range[1]

(* Faulty net resale: a negative low bound is not clamped to 0.            *)
NetResaleUnclamped(resale_range, fees_pct) ==
    RangeLow(resale_range) * (100 - fees_pct)

(* net_resale in e4: max(0, low) * (1 - fees_pct) *)
NetResale(resale_range, fees_pct) ==
    Max(0, RangeLow(resale_range)) * (100 - fees_pct)

NoNegotiation ==
    [suggested_offer_usd |-> None, max_buy_usd |-> None,
     roi_if_offer_pct |-> None, profit_if_offer_usd |-> None]

(* Faulty verdict: BUY needs an ROI strictly above 40.                     *)
VerdictStrictBuy(est_profit, roi_pct, risk_level) ==
    IF est_profit < 500 \/ (~IsNone(roi_pct) /\ Val(roi_pct) < 15)
           \/ risk_level = "high"
    THEN "SKIP"
    ELSE IF (~IsNone(roi_pct) /\ Val(roi_pct) > 40)
               /\ risk_level \in {"low", "medium"}
    THEN "BUY"
    ELSE "BUY IF NEGOTIATED LOWER"

(* The verdict rules of _deal_math; est_profit in cents, roi_pct optional.  *)
Verdict(est_profit, roi_pct, risk_level) ==
    IF est_profit < 500 \/ (~IsNone(roi_pct) /\ Val(roi_pct) < 15)
           \/ risk_level = "high"
    THEN "SKIP"
    ELSE IF (~IsNone(roi_pct) /\ Val(roi_pct) >= 40)
               /\ risk_level \in {"low", "medium"}
    THEN "BUY"
    ELSE "BUY IF NEGOTIATED LOWER"

(* The negotiation plans _deal_math can produce: net and buffer in e4,      *)
(* target_roi in percent.  Offers are whole dollars, profit is cents.       *)
Negotiation(net, buffer, target_roi) ==
    IF net - buffer > 0
    THEN LET suggested == NiceFloor(net - buffer, 100 * (100 + target_roi))
             max_buy == NiceFloor(net - buffer, 100 * 115)
         IN  IF suggested > 0
             THEN UNION { { [suggested_offer_usd |-> Some(suggested),
                             max_buy_usd |-> Some(max_buy),
                             roi_if_offer_pct |-> Some(r),
                             profit_if_offer_usd |-> Some(p2)] :
                            r \in RoundSet(p2, suggested) } :
                          p2 \in RoundSet(net - suggested * 10000 - buffer, 100) }
             ELSE { [suggested_offer_usd |-> Some(suggested),
                     max_buy_usd |-> Some(max_buy),
                     roi_if_offer_pct |-> None,
                     profit_if_offer_usd |-> None] }
    ELSE { NoNegotiation }

(* Faulty early return: the risk rule is applied although no price is known. *)
NoPriceResultRiskVerdict(a, buffer) ==
    [asking_price_usd |-> None,
     fees_pct |-> a.fees_pct,
     buffer_usd |-> buffer,
     estimated_profit_usd |-> None,
     roi_pct |-> None,
     verdict |-> IF a.risk_level = "high" THEN "SKIP" ELSE "BUY IF NEGOTIATED LOWER",
     risk_level |-> a.risk_level,
     negotiation |-> NoNegotiation]

(* The early return of _deal_math when asking_price_usd is None.            *)
NoPriceResult(a, buffer) ==
    [asking_price_usd |-> None,
     fees_pct |-> a.fees_pct,
     buffer_usd |-> buffer,
     estimated_profit_usd |-> None,
     roi_pct |-> None,
     verdict |-> "BUY IF NEGOTIATED LOWER",
     risk_level |-> a.risk_level,
     negotiation |-> NoNegotiation]

(* _deal_math: the set of DealAnalysis results the call can return.         *)
_deal_math(a) ==
    LET net == NetResale(a.resale_range, a.fees_pct)
        buffer == _buffer_usd(a.risk_level, a.confidence)
    IN  IF IsNone(a.asking_price_usd)
        THEN { NoPriceResult(a, buffer) }
        ELSE LET ap == Val(a.asking_price_usd)
             IN  UNION { UNION { { [asking_price_usd |-> Some(ap),
                                    fees_pct |-> a.fees_pct,
                                    buffer_usd |-> buffer,
                                    estimated_profit_usd |-> Some(est_profit),
                                    roi_pct |-> roi_pct,
                                    verdict |-> Verdict(est_profit, roi_pct, a.risk_level),
                                    risk_level |-> a.risk_level,
                                    negotiation |-> n] :
                                   n \in Negotiation(net, buffer * 10000, a.target_roi) } :
                                 roi_pct \in (IF ap > 0
                                              THEN { Some(r) : r \in RoundSet(est_profit * 100, ap) }
                                              ELSE { None }) } :
                         est_profit \in RoundSet(net - ap * 100 - buffer * 10000, 100) }

(***************************************************************************)
(* Inputs of the deal decision engine.                                     *)
(***************************************************************************)
Levels == {"low", "medium", "high"}

RangeSet ==
    { <<8000, 12000>>, <<12000, 15000>>, <<2489, 3000>>, <<2450, 2450>>,
      <<36641, 40000>>, <<36500, 40000>>, <<5029, 6000>>, <<4043, 5000>>,
      <<0, 0>>, <<-500, 1000>>, Malformed }

AskSet ==
    { None, Some(0), Some(-500), Some(990), Some(4000), Some(25000), Some(25641) }

FeesSet == {0, 13, 50, 100}
TargetRoiSet == {70}

DealInputs ==
    [resale_range : RangeSet, confidence : Levels, risk_level : Levels,
     asking_price_usd : AskSet, fees_pct : FeesSet, target_roi : TargetRoiSet]

(***************************************************************************)
(* Text helpers (str.strip, str.replace, str.lower) and the price parser   *)
(* of services/ebay_scout.py.                                              *)
(***************************************************************************)
Digits == {"0", "1", "2", "3", "4", "5", "6", "7", "8", "9"}

DigitVal(c) ==
    CASE c = "0" -> 0 [] c = "1" -> 1 [] c = "2" -> 2 [] c = "3" -> 3
      [] c = "4" -> 4 [] c = "5" -> 5 [] c = "6" -> 6 [] c = "7" -> 7
      [] c = "8" -> 8 [] c = "9" -> 9

IsSpace(c) == c \in {" ", "\t", "\n"}

RECURSIVE LStrip(_)
LStrip(s) ==
    IF s # <<>> /\ IsSpace(Head(s)) THEN LStrip(Tail(s)) ELSE s

RECURSIVE RStrip(_)
RStrip(s) ==
    IF s # <<>> /\ IsSpace(s[Len(s)]) THEN RStrip(SubSeq(s, 1, Len(s) - 1)) ELSE s

(* str.strip() *)
Strip(s) == RStrip(LStrip(s))

NotComma(c) == c # ","

(* Faulty parser: the thousands separators are left in the text.           *)
RemoveCommasKept(s) == s

(* raw.replace(",", "") *)
RemoveCommas(s) == SelectSeq(s, NotComma)

LowerChar(c) ==
    CASE c = "A" -> "a" [] c = "B" -> "b" [] c = "E" -> "e" [] c = "H" -> "h"
      [] c = "D" -> "d" [] c = "L" -> "l" [] c = "N" -> "n" [] c = "O" -> "o" [] c = "P" -> "p"
      [] c = "S" -> "s" [] c = "V" -> "v" [] c = "Y" -> "y"
      [] OTHER -> c

(* str.lower(), on the letters the modelled titles use *)
Lower(s) == [i \in 1 .. Len(s) |-> LowerChar(s[i])]

(* Index of the first digit of s, 0 if there is none. *)
RECURSIVE FirstDigitFrom(_, _)
FirstDigitFrom(s, i) ==
    IF i > Len(s) THEN 0
    ELSE IF s[i] \in Digits THEN i
    ELSE FirstDigitFrom(s, i + 1)

(* Last index of the maximal run of digits of s that starts at i. *)
RECURSIVE DigitRunEnd(_, _)
DigitRunEnd(s, i) ==
    IF i + 1 <= Len(s) /\ s[i + 1] \in Digits THEN DigitRunEnd(s, i + 1) ELSE i

(* Value of a sequence of digits. *)
RECURSIVE DigitsValue(_)
DigitsValue(ds) ==
    IF ds = <<>> THEN 0
    ELSE 10 * DigitsValue(SubSeq(ds, 1, Len(ds) - 1)) + DigitVal(ds[Len(ds)])

Pow10(k) == CASE k = 0 -> 1 [] k = 1 -> 10 [] k = 2 -> 100 [] k = 3 -> 1000 [] k = 4 -> 10000

(* PRICE_RE.search(s): the leftmost match of [0-9]+(?:[\.,][0-9]+)?, as    *)
(* <<first, last of the integer part, last of the match>>, <<>> if none.    *)
PriceMatch(s) ==
    LET i == FirstDigitFrom(s, 1)
        j == DigitRunEnd(s, i)
    IN  IF i = 0 THEN <<>>
        ELSE IF j + 2 <= Len(s) /\ s[j + 1] \in {".", ","} /\ s[j + 2] \in Digits
        THEN <<i, j, DigitRunEnd(s, j + 2)>>
        ELSE <<i, j, j>>

(* float(m.group(1)) in e4, for a group with a "." separator or none and   *)
(* at most four decimals.                                                   *)
MatchValue(s, m) ==
    LET whole == DigitsValue(SubSeq(s, m[1], m[2]))
        frac == SubSeq(s, m[2] + 2, m[3])
    IN  whole * 10000 + DigitsValue(frac) * Pow10(4 - Len(frac))

(* _parse_price_to_usd: optional price in e4; float() raises ValueError on *)
(* a group with a "," separator, which the except turns into None.        *)
_parse_price_to_usd(raw) ==
    IF raw = <<>> THEN None
    ELSE LET s == Strip(RemoveCommas(raw))
             m == PriceMatch(s)
         IN  IF m = <<>> THEN None
             ELSE IF m[3] > m[2] /\ s[m[2] + 1] = "," THEN None
             ELSE Some(MatchValue(s, m))

(***************************************************************************)
(* Listings, pages and the extraction loop of _search_ebay.                *)
(***************************************************************************)
RECURSIVE SeqMin(_)
SeqMin(xs) ==
    IF Len(xs) = 1 THEN xs[1]
    ELSE LET m == SeqMin(Tail(xs)) IN IF xs[1] <= m THEN xs[1] ELSE m

RECURSIVE SeqMax(_)
SeqMax(xs) ==
    IF Len(xs) = 1 THEN xs[1]
    ELSE LET m == SeqMax(Tail(xs)) IN IF xs[1] >= m THEN xs[1] ELSE m

(* _min_max: prices in e4, the range in cents (round(.., 2)); the possible  *)
(* results, a value being rounded the same way wherever it occurs.          *)
_min_max(prices) ==
    IF prices = <<>> THEN { None }
    ELSE LET lo == SeqMin(prices)
             hi == SeqMax(prices)
         IN  IF lo = hi
             THEN { Some(<<c, c>>) : c \in RoundSet(lo, 100) }
             ELSE { Some(<<l, h>>) : <<l, h>> \in RoundSet(lo, 100) \X RoundSet(hi, 100) }

ShopOnEbay == <<"s", "h", "o", "p", " ", "o", "n", " ", "e", "b", "a", "y">>

(* One iteration of the loop over li.s-item for an entry that is kept: the  *)
(* example record; sold_date is None when the key is not set.  An entry is  *)
(* [title, href, price, ended], each None when its element is missing.      *)
ExampleOf(it, sold) ==
    LET raw_price == IF IsNone(it.price) THEN <<>> ELSE Strip(Val(it.price))
        sd == IF sold /\ ~IsNone(it.ended) THEN Strip(Val(it.ended)) ELSE <<>>
    IN  [title |-> Strip(Val(it.title)),
         url |-> Val(it.href),
         raw_price |-> raw_price,
         price_usd |-> _parse_price_to_usd(raw_price),
         sold_date |-> IF sd # <<>> THEN Some(sd) ELSE None]

(* Faulty test: the placeholder title is compared without lower().          *)
SkippedCaseSensitive(it) ==
    \/ IsNone(it.title)
    \/ Strip(Val(it.title)) = <<>>
    \/ Strip(Val(it.title)) \in { ShopOnEbay }
    \/ IsNone(it.href)
    \/ Val(it.href) = ""

(* The three "continue" tests of the loop. *)
Skipped(it) ==
    \/ IsNone(it.title)
    \/ Strip(Val(it.title)) = <<>>
    \/ Lower(Strip(Val(it.title))) \in { ShopOnEbay }
    \/ IsNone(it.href)
    \/ Val(it.href) = ""

(* The loop over the entries of the page: the examples collected. *)
RECURSIVE Extract(_, _, _, _)
Extract(items, sold, limit, examples) ==
    IF items = <<>> \/ Len(examples) >= limit THEN examples
    ELSE IF Skipped(Head(items)) THEN Extract(Tail(items), sold, limit, examples)
    ELSE Extract(Tail(items), sold, limit, Append(examples, ExampleOf(Head(items), sold)))

HasPrice(ex) == ~IsNone(ex.price_usd)

(* The prices list kept next to the examples: every numeric price_usd. *)
PricesOf(examples) ==
    LET priced == SelectSeq(examples, HasPrice)
    IN  [i \in 1 .. Len(priced) |-> Val(priced[i].price_usd)]

(***************************************************************************)
(* The pages the marketplace can serve.                                    *)
(***************************************************************************)
TitleLamp == <<"L", "a", "m", "p">>
TitleVase == <<" ", "V", "a", "s", "e">>
TitleShop == <<"S", "h", "o", "p", " ", "o", "n", " ", "e", "B", "a", "y">>
Price40 == <<"$", "4", "0", ".", "0", "0">>
Price1299 == <<"$", "1", ",", "2", "9", "9", ".", "5", "0">>
PriceOdd == <<"$", "1", "0", ".", "9", "9", "9">>
PriceRange == <<"$", "5", " ", "t", "o", " ", "$", "9">>
PriceFree == <<"F", "r", "e", "e">>
PriceZero == <<"$", "0", ".", "0", "0">>
Ended == <<"M", "a", "y", " ", "1">>

ItemLamp == [title |-> Some(TitleLamp), href |-> Some("u1"), price |-> Some(Price40), ended |-> Some(Ended)]
ItemVase == [title |-> Some(TitleVase), href |-> Some("u2"), price |-> Some(Price1299), ended |-> None]
ItemOdd == [title |-> Some(TitleLamp), href |-> Some("u3"), price |-> Some(PriceOdd), ended |-> None]
ItemCheap == [title |-> Some(TitleVase), href |-> Some("u4"), price |-> Some(PriceRange), ended |-> None]
ItemFree == [title |-> Some(TitleLamp), href |-> Some("u5"), price |-> Some(PriceFree), ended |-> None]
ItemZero == [title |-> Some(TitleLamp), href |-> Some("u6"), price |-> Some(PriceZero), ended |-> Some(Ended)]
ItemShop == [title |-> Some(TitleShop), href |-> Some("u7"), price |-> Some(PriceZero), ended |-> None]
ItemNoLink == [title |-> Some(TitleVase), href |-> None, price |-> Some(PriceZero), ended |-> None]
ItemNoTitle == [title |-> None, href |-> Some("u8"), price |-> Some(PriceZero), ended |-> None]

(* A page is its result-count heading (None when it has none or reading it  *)
(* fails, which the inner except swallows) and its li.s-item entries.       *)
PageTwo == [count_text |-> Some(<<"2">>), items |-> <<ItemShop, ItemLamp, ItemVase>>]
PageOdd == [count_text |-> None, items |-> <<ItemOdd, ItemNoLink>>]
PageCheap == [count_text |-> Some(<<"1">>), items |-> <<ItemNoTitle, ItemCheap>>]
PageFree == [count_text |-> None, items |-> <<ItemFree>>]
PageZero == [count_text |-> None, items |-> <<ItemZero>>]
PageEmpty == [count_text |-> None, items |-> <<>>]

QueryLamp == <<"l">>
QueryVase == <<"v">>
QueryOther == <<"x">>
QueryExtra == <<"y">>
QueryUpper == <<"L">>
QuerySpaced == <<"l", " ", " ", "v">>
Queries == {QueryLamp, QueryVase, QueryOther, QueryExtra, QueryUpper, QuerySpaced}

(* sold listings priced, active listings cheaper than every sold one *)
WorldPriced ==
    [k \in Queries \X BOOLEAN |->
        IF ~k[2] THEN PageCheap
        ELSE IF k[1] = QueryLamp THEN PageTwo
        ELSE IF k[1] = QueryVase THEN PageOdd
        ELSE PageFree]

(* no sold listing carries a price, active listings do *)
WorldNoComps ==
    [k \in Queries \X BOOLEAN |->
        IF ~k[2] THEN PageTwo
        ELSE IF k[1] = QueryLamp THEN PageFree
        ELSE PageEmpty]

(* the only sold prices are 0.00 *)
WorldZero ==
    [k \in Queries \X BOOLEAN |->
        IF ~k[2] THEN PageEmpty
        ELSE IF k[1] = QueryLamp THEN PageZero
        ELSE PageFree]

Worlds == {WorldPriced, WorldNoComps, WorldZero}

(***************************************************************************)
(* ebay_scout and _search_ebay as a state machine.                         *)
(***************************************************************************)
MaxQueries == 3
DefaultLimitEach == 6

ScoutCalls ==
    { [queries |-> <<>>, limit_each |-> DefaultLimitEach],
      [queries |-> <<QueryLamp>>, limit_each |-> 1],
      [queries |-> <<<<" ">>, <<" ", "v", " ">>, <<>>, QueryLamp>>, limit_each |-> DefaultLimitEach],
      [queries |-> <<QueryLamp, QueryVase, QueryOther, QueryExtra>>, limit_each |-> DefaultLimitEach],
      [queries |-> <<QueryUpper, QueryLamp, QuerySpaced>>, limit_each |-> 1] }

NoSession ==
    [pc |-> "none", query |-> <<>>, sold |-> FALSE, limit |-> 0,
     browser |-> FALSE, context |-> FALSE, page |-> None,
     count_text |-> None, examples |-> <<>>, prices |-> <<>>,
     exc |-> "none", outcome |-> "none", gotos |-> 0]

(* Faulty entry: examples and prices are shared by all calls.               *)
NewSessionSharedLists(query, sold, limit) ==
    [NoSession EXCEPT !.pc = "launch", !.query = query, !.sold = sold,
                      !.limit = limit, !.outcome = "pending",
                      !.examples = sess.examples, !.prices = sess.prices]

(* Entry of _search_ebay: fresh locals, nothing opened yet. *)
NewSession(query, sold, limit) ==
    [NoSession EXCEPT !.pc = "launch", !.query = query, !.sold = sold,
                      !.limit = limit, !.outcome = "pending"]

NoScout ==
    [pc |-> "idle", queries |-> <<>>, limit_each |-> 0, qi |-> 0, a |-> None,
     active |-> <<>>, sold |-> <<>>, sold_prices |-> <<>>]

NonBlank(q) == q # <<>> /\ Strip(q) # <<>>

(* Faulty clean-up: the list is not cut to its first three entries.        *)
CleanQueriesUncut(queries) ==
    LET kept == SelectSeq(queries, NonBlank)
    IN  [i \in 1 .. Len(kept) |-> Strip(kept[i])]

(* [q.strip() for q in queries if q and q.strip()][:3] *)
CleanQueries(queries) ==
    LET kept == SelectSeq(queries, NonBlank)
        n == IF Len(kept) < MaxQueries THEN Len(kept) ELSE MaxQueries
    IN  [i \in 1 .. n |-> Strip(kept[i])]

(* The dict _search_ebay returns. *)
ModeResult(f, mm) ==
    [query |-> f.query,
     mode |-> IF f.sold THEN "sold" ELSE "active",
     count_text |-> f.count_text,
     price_range_usd |-> mm,
     examples |-> f.examples]

InSession == sc.pc \in {"await_active", "await_sold"}

(* An exception leaves _search_ebay in frame f; ebay_scout has no handler.  *)
Raise(f) ==
    /\ sess' = [f EXCEPT !.pc = "raised", !.exc = "Error"]
    /\ sc' = [sc EXCEPT !.pc = "raised"]

(* ebay_scout, lines 113-117 *)
ScoutStart ==
    /\ sc.pc = "call"
    /\ sc' = [NoScout EXCEPT !.pc = "loop",
                             !.queries = CleanQueries(Val(scin).queries),
                             !.limit_each = Val(scin).limit_each,
                             !.qi = 1]
    /\ UNCHANGED <<web, scin, sess, report, log, dealVars, descVars, parseVars, dbVars>>

(* for q in queries: a = await _search_ebay(q, sold=False, ...) *)
NextQuery ==
    /\ sc.pc = "loop"
    /\ sc.qi <= Len(sc.queries)
    /\ sc' = [sc EXCEPT !.pc = "await_active"]
    /\ sess' = NewSession(sc.queries[sc.qi], FALSE, sc.limit_each)
    /\ UNCHANGED <<web, scin, report, log, dealVars, descVars, parseVars, dbVars>>

(* p.chromium.launch(headless=True) *)
Launch ==
    /\ InSession /\ sess.pc = "launch"
    /\ sess' = [sess EXCEPT !.pc = "new_context", !.browser = TRUE]
    /\ UNCHANGED <<web, scin, sc, report, log, dealVars, descVars, parseVars, dbVars>>

LaunchFails ==
    /\ InSession /\ sess.pc = "launch"
    /\ Raise(sess)
    /\ UNCHANGED <<web, scin, report, log, dealVars, descVars, parseVars, dbVars>>

(* browser.new_context(locale="en-US"), before the try *)
NewContext ==
    /\ InSession /\ sess.pc = "new_context"
    /\ sess' = [sess EXCEPT !.pc = "new_page", !.context = TRUE]
    /\ UNCHANGED <<web, scin, sc, report, log, dealVars, descVars, parseVars, dbVars>>

NewContextFails ==
    /\ InSession /\ sess.pc = "new_context"
    /\ Raise(sess)
    /\ UNCHANGED <<web, scin, report, log, dealVars, descVars, parseVars, dbVars>>

(* context.new_page(), before the try *)
NewPage ==
    /\ InSession /\ sess.pc = "new_page"
    /\ sess' = [sess EXCEPT !.pc = "goto"]
    /\ UNCHANGED <<web, scin, sc, report, log, dealVars, descVars, parseVars, dbVars>>

NewPageFails ==
    /\ InSession /\ sess.pc = "new_page"
    /\ Raise(sess)
    /\ UNCHANGED <<web, scin, report, log, dealVars, descVars, parseVars, dbVars>>

(* page.goto(url, ...) returns: the page behind the URL of (query, sold) *)
GotoOk ==
    /\ InSession /\ sess.pc = "goto"
    /\ sess' = [sess EXCEPT !.pc = "extract",
                            !.page = Some(web[<<sess.query, sess.sold>>]),
                            !.gotos = @ + 1]
    /\ UNCHANGED <<web, scin, sc, report, log, dealVars, descVars, parseVars, dbVars>>

(* Faulty handler: the navigation timeout is raised again.                 *)
GotoTimeoutPropagates ==
    /\ InSession /\ sess.pc = "goto"
    /\ sess' = [sess EXCEPT !.pc = "close_context", !.outcome = "nav_timeout",
                            !.exc = "PWTimeout", !.gotos = @ + 1]
    /\ UNCHANGED <<web, scin, sc, report, log, dealVars, descVars, parseVars, dbVars>>

(* page.goto raises PWTimeout: "except PWTimeout: pass", then the finally *)
GotoTimeout ==
    /\ InSession /\ sess.pc = "goto"
    /\ sess' = [sess EXCEPT !.pc = "close_context", !.outcome = "nav_timeout",
                            !.gotos = @ + 1]
    /\ UNCHANGED <<web, scin, sc, report, log, dealVars, descVars, parseVars, dbVars>>

(* page.goto raises another error: it passes through the finally *)
GotoError ==
    /\ InSession /\ sess.pc = "goto"
    /\ sess' = [sess EXCEPT !.pc = "close_context", !.outcome = "error",
                            !.exc = "Error", !.gotos = @ + 1]
    /\ UNCHANGED <<web, scin, sc, report, log, dealVars, descVars, parseVars, dbVars>>

(* lines 50-94 run to the end of the loop *)
ExtractAll ==
    /\ InSession /\ sess.pc = "extract"
    /\ LET pg == Val(sess.page)
           exs == Extract(pg.items, sess.sold, sess.limit, sess.examples)
       IN  sess' = [sess EXCEPT !.pc = "close_context", !.outcome = "ok",
                                !.count_text = IF IsNone(pg.count_text) THEN None
                                               ELSE Some(Strip(Val(pg.count_text))),
                                !.examples = exs,
                                !.prices = PricesOf(exs)]
    /\ UNCHANGED <<web, scin, sc, report, log, dealVars, descVars, parseVars, dbVars>>

(* The loop has handled k entries when an await of the next one raises:    *)
(* what it has collected so far.                                            *)
Partial(f, k) ==
    LET pg == Val(f.page)
        exs == Extract(SubSeq(pg.items, 1, k), f.sold, f.limit, f.examples)
    IN  [f EXCEPT !.pc = "close_context",
                  !.count_text = IF IsNone(pg.count_text) THEN None
                                 ELSE Some(Strip(Val(pg.count_text))),
                  !.examples = exs,
                  !.prices = PricesOf(exs)]

Reaches(f, k) ==
    /\ k < Len(Val(f.page).items)
    /\ Len(Extract(SubSeq(Val(f.page).items, 1, k), f.sold, f.limit, f.examples)) < f.limit

(* an element call inside the loop raises PWTimeout: caught like goto's *)
ExtractTimeout ==
    /\ InSession /\ sess.pc = "extract"
    /\ \E k \in 0 .. Len(Val(sess.page).items) :
          /\ Reaches(sess, k)
          /\ sess' = [Partial(sess, k) EXCEPT !.outcome = "extract_timeout"]
    /\ UNCHANGED <<web, scin, sc, report, log, dealVars, descVars, parseVars, dbVars>>

(* an element call inside the loop raises another error *)
ExtractError ==
    /\ InSession /\ sess.pc = "extract"
    /\ \E k \in 0 .. Len(Val(sess.page).items) :
          /\ Reaches(sess, k)
          /\ sess' = [Partial(sess, k) EXCEPT !.outcome = "error", !.exc = "Error"]
    /\ UNCHANGED <<web, scin, sc, report, log, dealVars, descVars, parseVars, dbVars>>

(* finally: await context.close() *)
CloseContext ==
    /\ InSession /\ sess.pc = "close_context"
    /\ sess' = [sess EXCEPT !.pc = "close_browser", !.context = FALSE]
    /\ UNCHANGED <<web, scin, sc, report, log, dealVars, descVars, parseVars, dbVars>>

(* finally: await browser.close(); a pending exception then leaves the call *)
CloseBrowser ==
    /\ InSession /\ sess.pc = "close_browser"
    /\ IF sess.exc = "none"
       THEN /\ sess' = [sess EXCEPT !.pc = "return", !.browser = FALSE]
            /\ sc' = sc
       ELSE /\ sess' = [sess EXCEPT !.pc = "raised", !.browser = FALSE]
            /\ sc' = [sc EXCEPT !.pc = "raised"]
    /\ UNCHANGED <<web, scin, report, log, dealVars, descVars, parseVars, dbVars>>

(* Faulty bookkeeping: the prices of the active result are collected too.   *)
SoldPricesWithActive(a, s) ==
    PricesOf(a.examples) \o PricesOf(s.examples)

(* lines 124-127: the numeric price_usd of the examples of s *)
SoldPrices(a, s) ==
    PricesOf(s.examples)

(* the active session returns (lines 102-109); ebay_scout calls the sold one *)
ReturnActive ==
    /\ sc.pc = "await_active" /\ sess.pc = "return"
    /\ \E mm \in _min_max(sess.prices) :
          sc' = [sc EXCEPT !.pc = "await_sold", !.a = Some(ModeResult(sess, mm))]
    /\ sess' = NewSession(sess.query, TRUE, sc.limit_each)
    /\ log' = Append(log, sess.outcome)
    /\ UNCHANGED <<web, scin, report, dealVars, descVars, parseVars, dbVars>>

(* the sold session returns; lines 122-127 *)
ReturnSold ==
    /\ sc.pc = "await_sold" /\ sess.pc = "return"
    /\ \E mm \in _min_max(sess.prices) :
          LET s == ModeResult(sess, mm)
          IN  sc' = [sc EXCEPT !.pc = "loop",
                               !.qi = @ + 1,
                               !.a = None,
                               !.active = Append(@, Val(sc.a)),
                               !.sold = Append(@, s),
                               !.sold_prices = @ \o SoldPrices(Val(sc.a), s)]
    /\ sess' = NoSession
    /\ log' = Append(log, sess.outcome)
    /\ UNCHANGED <<web, scin, report, dealVars, descVars, parseVars, dbVars>>

(* lines 129-137 *)
Finish ==
    /\ sc.pc = "loop"
    /\ sc.qi > Len(sc.queries)
    /\ \E overall \in _min_max(sc.sold_prices) :
          report' = Some([platform |-> "ebay",
                          queries_used |-> sc.queries,
                          active |-> sc.active,
                          sold |-> sc.sold,
                          overall_sold_price_range_usd |-> overall])
    /\ sc' = [sc EXCEPT !.pc = "done"]
    /\ UNCHANGED <<web, scin, sess, log, dealVars, descVars, parseVars, dbVars>>

(* no describe request is being served *)
NoDescribe ==
    [pc |-> "idle", market |-> None, risk_level |-> "", notes |-> <<>>, vision |-> None]

IdleDescribe ==
    /\ req = None
    /\ desc = NoDescribe
    /\ response = None

(***************************************************************************)
(* The SQLite database of db.py and the calls that use it.  Every db       *)
(* function opens its own connection (get_conn), so that each SELECT is    *)
(* one atomic read, and a write holds the write lock from its statement    *)
(* to the commit at the end of the with block.                             *)
(***************************************************************************)
Procs == {1, 2}
Keys == {"FA-1", "FA-2"}
Devices == {"d1", "d2"}

(* the license keys as callers type them *)
RawKeys == {"FA-1", " fa-1 ", "FA-2"}

(* (license_key or "").strip().upper() *)
NormKey(raw) == IF raw = " fa-1 " THEN "FA-1" ELSE raw

(* the tables after init_db *)
NoTables ==
    /\ licenses = [k \in Keys |-> None]
    /\ device_email = [d \in Devices |-> None]
    /\ usage_total = [d \in Devices |-> None]
    /\ usage_daily = [d \in Devices |-> None]
    /\ writer = 0

NoBind == [pc |-> "idle", license_key |-> "", device_id |-> "", calls |-> 0]

NoLimit ==
    [pc |-> "idle", phase |-> "", plan |-> "", used |-> 0, status |-> None, n |-> 0]

(* no request uses the database *)
IdleStore ==
    /\ NoTables
    /\ bind = [p \in Procs |-> NoBind]
    /\ bindlog = {}
    /\ lim = [p \in Procs |-> NoLimit]

(* _parse_price_to_usd is not being called on its own *)
IdleParse ==
    /\ ptext = <<>>
    /\ pout = <<>>

(* ebay_scout called on its own *)
ScoutInit ==
    /\ din = None /\ dout = None
    /\ web \in Worlds
    /\ scin \in { Some(c) : c \in ScoutCalls }
    /\ sc = [NoScout EXCEPT !.pc = "call"]
    /\ sess = NoSession
    /\ report = None
    /\ log = <<>>
    /\ IdleDescribe
    /\ IdleParse
    /\ IdleStore

ScoutNext ==
    \/ ScoutStart
    \/ NextQuery
    \/ Launch
    \/ LaunchFails
    \/ NewContext
    \/ NewContextFails
    \/ NewPage
    \/ NewPageFails
    \/ GotoOk
    \/ GotoTimeout
    \/ GotoError
    \/ ExtractAll
    \/ ExtractTimeout
    \/ ExtractError
    \/ CloseContext
    \/ CloseBrowser
    \/ ReturnActive
    \/ ReturnSold
    \/ Finish

ScoutSpec == ScoutInit /\ [][ScoutNext]_vars

(***************************************************************************)
(* POST /api/describe.                                                     *)
(***************************************************************************)
ModeQuick == <<"q", "u", "i", "c", "k">>
ModeDeep == <<" ", "D", "e", "e", "p">>
Deep == <<"d", "e", "e", "p">>

Requests ==
    [has_upload : BOOLEAN, mode : {ModeQuick, ModeDeep},
     asking_price_usd : {None, Some(4000)}]

NoteUnparsed == "Could not parse model JSON output"
NoteNoComps == "eBay scout: no close sold comps found; estimate may be unreliable."

(* What _parse_model_json can hand back for the vision answer: the          *)
(* market_estimate (None when absent or empty), the risk_level (None when   *)
(* absent or empty) and the notes.                                          *)
VisionAnswers ==
    { [market_estimate |-> Some([resale_price_range_usd |-> Some(<<8000, 12000>>),
                                 confidence |-> Some("high")]),
       risk_level |-> Some("low"), notes |-> <<>>],
      [market_estimate |-> Some([resale_price_range_usd |-> Some(<<9050, 12000>>),
                                 confidence |-> Some("medium")]),
       risk_level |-> Some("medium"), notes |-> <<"n1">>],
      [market_estimate |-> Some([resale_price_range_usd |-> Some(Malformed),
                                 confidence |-> None]),
       risk_level |-> Some("high"), notes |-> <<>>],
      [market_estimate |-> None, risk_level |-> None, notes |-> <<>>],
      [market_estimate |-> Some([resale_price_range_usd |-> Some(<<12000, 8000>>),
                                 confidence |-> Some("medium")]),
       risk_level |-> Some("low"), notes |-> <<>>],
      [market_estimate |-> Some([resale_price_range_usd |-> Some(<<0, 0>>),
                                 confidence |-> Some("low")]),
       risk_level |-> Some("medium"), notes |-> <<NoteUnparsed>>] }

(* model_json.get("market_estimate") or {...} *)
MarketOf(v) ==
    IF IsNone(v.market_estimate)
    THEN [resale_price_range_usd |-> Some(<<0, 0>>), confidence |-> Some("low")]
    ELSE Val(v.market_estimate)

(* model_json.get("risk_level") or "medium" *)
RiskOf(v) == IF IsNone(v.risk_level) THEN "medium" ELSE Val(v.risk_level)

(* The query lists build_queries hands to ebay_scout. *)
build_queries == { <<>>, <<QueryLamp>>, <<QueryLamp, QueryVase>>, <<QueryLamp, QueryVase, QueryOther>> }

IsDeep(mode) == Lower(Strip(mode)) = Deep

(* isinstance(rng, list) and len(rng) == 2 and (rng[0] or rng[1]) *)
Usable(rng) == ~IsNone(rng) /\ (Val(rng)[1] # 0 \/ Val(rng)[2] # 0)

(* int(x) of a price in cents, in cents again *)
IntDollars(c) == IF c >= 0 THEN (c \div 100) * 100 ELSE 0 - (((0 - c) \div 100) * 100)

(* Faulty fallback: the vision confidence is kept when no comps are found.  *)
AnchorMarketKeepsConfidence(market, rng) ==
    IF Usable(rng)
    THEN [resale_price_range_usd |-> Some(<<IntDollars(Val(rng)[1]), IntDollars(Val(rng)[2])>>),
          confidence |-> IF market.confidence # Some("high") THEN Some("medium") ELSE Some("high")]
    ELSE market

(* Faulty anchoring: the scout range is taken without int().                *)
AnchorMarketUntruncated(market, rng) ==
    IF Usable(rng)
    THEN [resale_price_range_usd |-> Some(<<Val(rng)[1], Val(rng)[2]>>),
          confidence |-> IF market.confidence # Some("high") THEN Some("medium") ELSE Some("high")]
    ELSE [market EXCEPT !.confidence = Some("low")]

(* lines 301-306: the market estimate after the scout *)
AnchorMarket(market, rng) ==
    IF Usable(rng)
    THEN [resale_price_range_usd |-> Some(<<IntDollars(Val(rng)[1]), IntDollars(Val(rng)[2])>>),
          confidence |-> IF market.confidence # Some("high") THEN Some("medium") ELSE Some("high")]
    ELSE [market EXCEPT !.confidence = Some("low")]

(* lines 301-306: the notes after the scout *)
AnchorNotes(notes, rng) ==
    IF Usable(rng) THEN notes ELSE Append(notes, NoteNoComps)

(* The arguments describe passes to _deal_math (lines 308-313). *)
DealArgs(market, risk_level, asking_price_usd) ==
    [resale_range |-> IF IsNone(market.resale_price_range_usd) THEN <<0, 0>>
                      ELSE Val(market.resale_price_range_usd),
     confidence |-> IF IsNone(market.confidence) THEN "low" ELSE Val(market.confidence),
     risk_level |-> risk_level,
     asking_price_usd |-> asking_price_usd,
     fees_pct |-> 13,
     target_roi |-> 70]

(* describe without an image: lines 269-275 *)
DescribeNoUpload ==
    /\ desc.pc = "start"
    /\ ~Val(req).has_upload
    /\ desc' = [desc EXCEPT !.pc = "done"]
    /\ response' = Some([ok |-> FALSE])
    /\ UNCHANGED <<req, dealVars, scoutVars, parseVars, dbVars>>

(* lines 277-293: the uploads are saved and the vision answer is parsed *)
DescribeVision ==
    /\ desc.pc = "start"
    /\ Val(req).has_upload
    /\ \E v \in VisionAnswers :
          desc' = [desc EXCEPT !.pc = "vision_done",
                               !.vision = Some(v),
                               !.market = Some(MarketOf(v)),
                               !.risk_level = RiskOf(v),
                               !.notes = v.notes]
    /\ UNCHANGED <<req, response, dealVars, scoutVars, parseVars, dbVars>>

(* lines 297-299: deep mode calls ebay_scout(queries, limit_each=6) *)
DescribeCallScout ==
    /\ desc.pc = "vision_done"
    /\ IsDeep(Val(req).mode)
    /\ \E qs \in build_queries :
          scin' = Some([queries |-> qs, limit_each |-> DefaultLimitEach])
    /\ sc' = [NoScout EXCEPT !.pc = "call"]
    /\ desc' = [desc EXCEPT !.pc = "await_scout"]
    /\ UNCHANGED <<req, response, dealVars, web, sess, report, log, parseVars, dbVars>>

(* lines 300-306, once ebay_scout has returned *)
DescribeAnchor ==
    /\ desc.pc = "await_scout"
    /\ sc.pc = "done"
    /\ LET rng == Val(report).overall_sold_price_range_usd
       IN  desc' = [desc EXCEPT !.pc = "deal",
                                !.market = Some(AnchorMarket(Val(desc.market), rng)),
                                !.notes = AnchorNotes(desc.notes, rng)]
    /\ UNCHANGED <<req, response, dealVars, scoutVars, parseVars, dbVars>>

(* an exception of ebay_scout leaves describe, which has no handler *)
DescribeScoutRaised ==
    /\ desc.pc = "await_scout"
    /\ sc.pc = "raised"
    /\ desc' = [desc EXCEPT !.pc = "aborted"]
    /\ UNCHANGED <<req, response, dealVars, scoutVars, parseVars, dbVars>>

(* lines 308-342: the deal is computed and the response is built *)
DescribeDeal ==
    /\ \/ desc.pc = "deal"
       \/ desc.pc = "vision_done" /\ ~IsDeep(Val(req).mode)
    /\ LET args == DealArgs(Val(desc.market), desc.risk_level, Val(req).asking_price_usd)
       IN  /\ din' = Some(args)
           /\ \E deal \in _deal_math(args) :
                 /\ dout' = Some(deal)
                 /\ response' = Some([ok |-> TRUE,
                                      market_estimate |-> Val(desc.market),
                                      risk_level |-> desc.risk_level,
                                      deal_analysis |-> deal,
                                      notes |-> desc.notes,
                                      mode |-> Val(req).mode,
                                      ebay |-> report])
    /\ desc' = [desc EXCEPT !.pc = "done"]
    /\ UNCHANGED <<req, scoutVars, parseVars, dbVars>>

(* ebay_scout is not running *)
IdleScout ==
    /\ web = WorldPriced
    /\ scin = None
    /\ sc = NoScout
    /\ sess = NoSession
    /\ report = None
    /\ log = <<>>

(***************************************************************************)
(* The engine called on its own: one call of _deal_math per behaviour.     *)
(***************************************************************************)
DealInit ==
    /\ din \in { Some(a) : a \in DealInputs }
    /\ dout = None
    /\ IdleScout
    /\ IdleDescribe
    /\ IdleParse
    /\ IdleStore

CallDealMath ==
    /\ ~IsNone(din)
    /\ IsNone(dout)
    /\ \E r \in _deal_math(Val(din)) : dout' = Some(r)
    /\ UNCHANGED <<din, scoutVars, descVars, parseVars, dbVars>>

DealNext == CallDealMath

DealSpec == DealInit /\ [][DealNext]_vars

(* one describe request *)
Init ==
    /\ din = None /\ dout = None
    /\ web \in Worlds
    /\ scin = None
    /\ sc = NoScout
    /\ sess = NoSession
    /\ report = None
    /\ log = <<>>
    /\ req \in { Some(r) : r \in Requests }
    /\ desc = [NoDescribe EXCEPT !.pc = "start"]
    /\ response = None
    /\ IdleParse
    /\ IdleStore

Next ==
    \/ DescribeNoUpload
    \/ DescribeVision
    \/ DescribeCallScout
    \/ DescribeAnchor
    \/ DescribeScoutRaised
    \/ DescribeDeal
    \/ ScoutStart
    \/ NextQuery
    \/ Launch
    \/ LaunchFails
    \/ NewContext
    \/ NewContextFails
    \/ NewPage
    \/ NewPageFails
    \/ GotoOk
    \/ GotoTimeout
    \/ GotoError
    \/ ExtractAll
    \/ ExtractTimeout
    \/ ExtractError
    \/ CloseContext
    \/ CloseBrowser
    \/ ReturnActive
    \/ ReturnSold
    \/ Finish

Spec == Init /\ [][Next]_vars

(***************************************************************************)
(* _parse_price_to_usd called on its own, on short texts over the          *)
(* characters price texts are made of and on the texts of the pages.       *)
(***************************************************************************)
MaxTextLen == 4

TextAlphabet == {"$", "1", "0", "5", ",", ".", " "}

Price10to15 == <<"$", "1", "0", " ", "t", "o", " ", "$", "1", "5">>

ParseTexts ==
    UNION { [1 .. n -> TextAlphabet] : n \in 0 .. MaxTextLen }
    \cup {Price40, Price1299, PriceOdd, PriceRange, PriceFree, PriceZero, Price10to15}

ParseInit ==
    /\ din = None /\ dout = None
    /\ IdleScout
    /\ IdleDescribe
    /\ ptext \in ParseTexts
    /\ pout = <<>>
    /\ IdleStore

CallParse ==
    /\ pout = <<>>
    /\ pout' = <<_parse_price_to_usd(ptext)>>
    /\ UNCHANGED <<ptext, dealVars, scoutVars, descVars, dbVars>>

ParseNext == CallParse

ParseSpec == ParseInit /\ [][ParseNext]_vars

(***************************************************************************)
(* bind_license_to_device called by concurrent requests.                   *)
(***************************************************************************)
MaxBinds == 2

(* create_license: a paid license without a device *)
NewLicense == Some([plan |-> "paid", device_id |-> None])

BindInit ==
    /\ din = None /\ dout = None
    /\ IdleScout
    /\ IdleDescribe
    /\ IdleParse
    /\ licenses = [k \in Keys |-> IF k = "FA-1" THEN NewLicense ELSE None]
    /\ device_email = [d \in Devices |-> None]
    /\ usage_total = [d \in Devices |-> None]
    /\ usage_daily = [d \in Devices |-> None]
    /\ writer = 0
    /\ bind = [p \in Procs |-> NoBind]
    /\ bindlog = {}
    /\ lim = [p \in Procs |-> NoLimit]

(* what a call returned *)
BindResult(f, ok, status) ==
    [license_key |-> f.license_key, device_id |-> f.device_id, ok |-> ok, status |-> status]

(* the call ends: the frame is left, the result goes to the caller *)
BindReturn(p, ok, status) ==
    /\ bind' = [bind EXCEPT ![p] = [NoBind EXCEPT !.calls = bind[p].calls + 1]]
    /\ bindlog' = bindlog \cup {BindResult(bind[p], ok, status)}

(* lines 126-129: the key is normalised and a connection is opened *)
BindCall ==
    \E p \in Procs :
        /\ bind[p].pc = "idle"
        /\ bind[p].calls < MaxBinds
        /\ \E raw \in RawKeys, d \in Devices :
              bind' = [bind EXCEPT ![p] = [@ EXCEPT !.pc = "select",
                                                    !.license_key = NormKey(raw),
                                                    !.device_id = d]]
        /\ UNCHANGED <<tableVars, bindlog, lim, dealVars, scoutVars, descVars, parseVars>>

(* lines 131-139: the SELECT and the tests on the row it returned *)
BindSelect ==
    \E p \in Procs :
        /\ bind[p].pc = "select"
        /\ LET row == licenses[bind[p].license_key]
           IN  IF IsNone(row)
               THEN BindReturn(p, FALSE, "LICENSE_NOT_FOUND")
               ELSE LET bound_device == Val(row).device_id
                    IN  IF ~IsNone(bound_device) /\ Val(bound_device) # "" /\ Val(bound_device) # bind[p].device_id
                        THEN BindReturn(p, FALSE, "LICENSE_ALREADY_BOUND_TO_ANOTHER_DEVICE")
                        ELSE IF bound_device = Some(bind[p].device_id)
                        THEN BindReturn(p, TRUE, "ALREADY_BOUND")
                        ELSE /\ bind' = [bind EXCEPT ![p] = [@ EXCEPT !.pc = "update"]]
                             /\ bindlog' = bindlog
        /\ UNCHANGED <<tableVars, lim, dealVars, scoutVars, descVars, parseVars>>

(* line 140: the UPDATE takes the write lock; its change is not committed  *)
BindUpdate ==
    \E p \in Procs :
        /\ bind[p].pc = "update"
        /\ writer = 0
        /\ writer' = p
        /\ bind' = [bind EXCEPT ![p] = [@ EXCEPT !.pc = "commit"]]
        /\ UNCHANGED <<licenses, device_email, usage_total, usage_daily, bindlog, lim,
                       dealVars, scoutVars, descVars, parseVars>>

(* line 140 while another connection holds the write lock for longer than  *)
(* the timeout of sqlite3.connect: "database is locked" is raised          *)
BindBusy ==
    \E p \in Procs :
        /\ bind[p].pc = "update"
        /\ writer \notin {0, p}
        /\ bind' = [bind EXCEPT ![p] = [NoBind EXCEPT !.calls = bind[p].calls + 1]]
        /\ bindlog' = bindlog \cup {BindResult(bind[p], FALSE, "raised")}
        /\ UNCHANGED <<tableVars, lim, dealVars, scoutVars, descVars, parseVars>>

(* UPDATE licenses SET device_id=? WHERE license_key=? *)
BoundRow(row, device_id) ==
    Some([Val(row) EXCEPT !.device_id = Some(device_id)])

(* line 141 and get_conn, line 16: return (True, "BOUND_OK"), the commit   *)
(* on leaving the with block writes the row and releases the lock          *)
BindCommit ==
    \E p \in Procs :
        /\ bind[p].pc = "commit"
        /\ writer = p
        /\ licenses' = [licenses EXCEPT ![bind[p].license_key] = BoundRow(@, bind[p].device_id)]
        /\ writer' = 0
        /\ BindReturn(p, TRUE, "BOUND_OK")
        /\ UNCHANGED <<device_email, usage_total, usage_daily, lim,
                       dealVars, scoutVars, descVars, parseVars>>

BindNext ==
    \/ BindCall
    \/ BindSelect
    \/ BindUpdate
    \/ BindBusy
    \/ BindCommit

BindSpec == BindInit /\ [][BindNext]_vars

(***************************************************************************)
(* services/limits.py: requests of one device, each calling check_limit    *)
(* and then, only when it was allowed, register_usage.                     *)
(***************************************************************************)
FREE_TOTAL_LIMIT == 5
EMAIL_DAILY_LIMIT == 10
PAID_DAILY_LIMIT == 200

MaxRequests == 2

LimitDevice == "d1"

(* db.is_device_paid *)
is_device_paid(device_id) ==
    \E k \in Keys :
        /\ ~IsNone(licenses[k])
        /\ Val(licenses[k]).device_id = Some(device_id)
        /\ Val(licenses[k]).plan = "paid"

(* db.get_total_count / db.get_daily_count: 0 when there is no row *)
CountOf(table, device_id) ==
    IF IsNone(table[device_id]) THEN 0 ELSE Val(table[device_id])

(* INSERT ... ON CONFLICT DO UPDATE SET count = count + ?, one statement   *)
(* committed on its own connection                                         *)
Upsert(table, device_id, amount) ==
    [table EXCEPT ![device_id] = IF IsNone(@) THEN Some(amount) ELSE Some(Val(@) + amount)]

LimitOf(plan) ==
    CASE plan = "paid" -> PAID_DAILY_LIMIT
      [] plan = "email" -> EMAIL_DAILY_LIMIT
      [] OTHER -> FREE_TOTAL_LIMIT

(* the LimitStatus check_limit builds from the count it read *)
LimitStatus(plan, used) ==
    LET limit == LimitOf(plan)
        remaining == Max(0, limit - used)
    IN  [plan |-> plan,
         allowed |-> remaining > 0,
         reason |-> IF remaining > 0 THEN "OK"
                    ELSE IF plan = "free" THEN "FREE_LIMIT_REACHED"
                    ELSE "DAILY_LIMIT_REACHED",
         remaining |-> remaining,
         limit |-> limit]

(* the device as earlier requests can have left it: with or without a paid *)
(* license and an e-mail address, and with some usage counted              *)
LimitInit ==
    /\ din = None /\ dout = None
    /\ IdleScout
    /\ IdleDescribe
    /\ IdleParse
    /\ licenses \in { [k \in Keys |-> IF k = "FA-1" THEN Some([plan |-> "paid", device_id |-> b]) ELSE None] :
                        b \in {None, Some(LimitDevice)} }
    /\ device_email \in { [d \in Devices |-> IF d = LimitDevice THEN e ELSE None] :
                            e \in {None, Some("a@b.c")} }
    /\ usage_total \in { [d \in Devices |-> IF d = LimitDevice THEN c ELSE None] :
                           c \in {None} \cup { Some(n) : n \in 1 .. FREE_TOTAL_LIMIT } }
    /\ usage_daily \in { [d \in Devices |-> IF d = LimitDevice THEN c ELSE None] :
                           c \in {None, Some(EMAIL_DAILY_LIMIT - 1)} }
    /\ writer = 0
    /\ bind = [p \in Procs |-> NoBind]
    /\ bindlog = {}
    /\ lim = [p \in Procs |-> NoLimit]

(* a request arrives and calls check_limit *)
LimitRequest ==
    \E p \in Procs :
        /\ lim[p].pc = "idle"
        /\ lim[p].n < MaxRequests
        /\ lim' = [lim EXCEPT ![p] = [NoLimit EXCEPT !.pc = "plan_paid", !.phase = "check", !.n = lim[p].n]]
        /\ UNCHANGED <<tableVars, bind, bindlog, dealVars, scoutVars, descVars, parseVars>>

(* compute_plan, line 21: db.is_device_paid *)
PlanPaid ==
    \E p \in Procs :
        /\ lim[p].pc = "plan_paid"
        /\ lim' = [lim EXCEPT ![p] = IF is_device_paid(LimitDevice)
                                     THEN [@ EXCEPT !.pc = "count", !.plan = "paid"]
                                     ELSE [@ EXCEPT !.pc = "plan_email"]]
        /\ UNCHANGED <<tableVars, bind, bindlog, dealVars, scoutVars, descVars, parseVars>>

(* compute_plan, lines 23-25: db.get_email_for_device *)
PlanEmail ==
    \E p \in Procs :
        /\ lim[p].pc = "plan_email"
        /\ lim' = [lim EXCEPT ![p] = [@ EXCEPT !.pc = "count",
                                               !.plan = IF ~IsNone(device_email[LimitDevice])
                                                        THEN "email" ELSE "free"]]
        /\ UNCHANGED <<tableVars, bind, bindlog, dealVars, scoutVars, descVars, parseVars>>

(* check_limit, lines 31-46: the count is read and the status returned; a  *)
(* request that is not allowed ends here, the others call register_usage   *)
CheckCount ==
    \E p \in Procs :
        /\ lim[p].pc = "count"
        /\ lim[p].phase = "check"
        /\ LET used == IF lim[p].plan = "free" THEN CountOf(usage_total, LimitDevice)
                       ELSE CountOf(usage_daily, LimitDevice)
               st == LimitStatus(lim[p].plan, used)
           IN  lim' = [lim EXCEPT ![p] = IF st.allowed
                                         THEN [@ EXCEPT !.pc = "plan_paid", !.phase = "register",
                                                        !.used = used, !.status = Some(st)]
                                         ELSE [@ EXCEPT !.pc = "idle", !.phase = "",
                                                        !.used = used, !.status = Some(st),
                                                        !.n = @ + 1]]
        /\ UNCHANGED <<tableVars, bind, bindlog, dealVars, scoutVars, descVars, parseVars>>

(* register_usage, lines 51-54 *)
RegisterInc ==
    \E p \in Procs :
        /\ lim[p].pc = "count"
        /\ lim[p].phase = "register"
        /\ writer = 0
        /\ IF lim[p].plan \in {"paid", "email"}
           THEN /\ usage_daily' = Upsert(usage_daily, LimitDevice, 1)
                /\ usage_total' = usage_total
           ELSE /\ usage_total' = Upsert(usage_total, LimitDevice, 1)
                /\ usage_daily' = usage_daily
        /\ lim' = [lim EXCEPT ![p] = [@ EXCEPT !.pc = "idle", !.phase = "", !.n = @ + 1]]
        /\ UNCHANGED <<licenses, device_email, writer, bind, bindlog,
                       dealVars, scoutVars, descVars, parseVars>>

LimitNext ==
    \/ LimitRequest
    \/ PlanPaid
    \/ PlanEmail
    \/ CheckCount
    \/ RegisterInc

LimitSpec == LimitInit /\ [][LimitNext]_vars

(***************************************************************************)
(* Properties of the deal decision engine (checked under DealSpec).        *)
(***************************************************************************)
Called == ~IsNone(din) /\ ~IsNone(dout)
Priced == Called /\ ~IsNone(Val(din).asking_price_usd)

(* roi_pct < n and roi_pct >= n, false when roi_pct is null *)
RoiBelow(o, n) == ~IsNone(o) /\ Val(o) < n
RoiAtLeast(o, n) == ~IsNone(o) /\ Val(o) >= n

(* C1: with a non-null asking price the verdict follows the precedence     *)
(* SKIP (profit < 5 or roi < 15 or risk high), then BUY (roi >= 40 and     *)
(* risk low/medium), then BUY IF NEGOTIATED LOWER; in particular           *)
(* 4.99/50/low is SKIP, 100/39/low is BUY IF NEGOTIATED LOWER and          *)
(* 100/40/medium is BUY.                                                   *)
C1_VerdictPrecedence ==
    Priced =>
      LET r == Val(dout)
          profit == Val(r.estimated_profit_usd)
          roi == r.roi_pct
          risk == r.risk_level
      IN  /\ (profit < 500 \/ RoiBelow(roi, 15) \/ risk = "high")
               => r.verdict = "SKIP"
          /\ (~(profit < 500 \/ RoiBelow(roi, 15) \/ risk = "high")
                /\ RoiAtLeast(roi, 40) /\ risk \in {"low", "medium"})
               => r.verdict = "BUY"
          /\ (~(profit < 500 \/ RoiBelow(roi, 15) \/ risk = "high")
                /\ ~(RoiAtLeast(roi, 40) /\ risk \in {"low", "medium"}))
               => r.verdict = "BUY IF NEGOTIATED LOWER"
          /\ (profit = 499 /\ roi = Some(50) /\ risk = "low")
               => r.verdict = "SKIP"
          /\ (profit = 10000 /\ roi = Some(39) /\ risk = "low")
               => r.verdict = "BUY IF NEGOTIATED LOWER"
          /\ (profit = 10000 /\ roi = Some(40) /\ risk = "medium")
               => r.verdict = "BUY"

C1_Witness ==
    /\ Priced
    /\ Val(dout).estimated_profit_usd = Some(10000)
    /\ Val(dout).roi_pct = Some(40)
    /\ Val(dout).risk_level = "medium"
    /\ Val(dout).verdict = "BUY"

(* C2: with the asking price omitted, for every resale range, confidence   *)
(* and risk level the verdict is "BUY IF NEGOTIATED LOWER" and the profit, *)
(* the ROI and the four negotiation fields are null.                       *)
C2_NoPriceNoVerdict ==
    (Called /\ IsNone(Val(din).asking_price_usd)) =>
      LET r == Val(dout)
      IN  /\ r.verdict = "BUY IF NEGOTIATED LOWER"
          /\ IsNone(r.estimated_profit_usd)
          /\ IsNone(r.roi_pct)
          /\ IsNone(r.negotiation.suggested_offer_usd)
          /\ IsNone(r.negotiation.max_buy_usd)
          /\ IsNone(r.negotiation.roi_if_offer_pct)
          /\ IsNone(r.negotiation.profit_if_offer_usd)

C2_Witness ==
    /\ Called
    /\ IsNone(Val(din).asking_price_usd)
    /\ Val(din).risk_level = "high"
    /\ Val(din).resale_range = <<8000, 12000>>
    /\ Val(dout).verdict = "BUY IF NEGOTIATED LOWER"

(* The end-to-end scenario of C3: (80,120), medium confidence, low risk,   *)
(* asking 40, fees 0.13, target ROI 0.70.                                  *)
Scenario ==
    [resale_range |-> <<8000, 12000>>, confidence |-> "medium",
     risk_level |-> "low", asking_price_usd |-> Some(4000),
     fees_pct |-> 13, target_roi |-> 70]

(* C3 as stated: the scenario yields net_resale 69.6, buffer 15,           *)
(* estimated_profit 14.6, roi_pct 37 and "BUY IF NEGOTIATED LOWER".        *)
C3_ScenarioAsStated ==
    (Called /\ Val(din) = Scenario) =>
      /\ NetResale(Scenario.resale_range, Scenario.fees_pct) = 696000
      /\ Val(dout).buffer_usd = 15
      /\ Val(dout).estimated_profit_usd = Some(1460)
      /\ Val(dout).roi_pct = Some(37)
      /\ Val(dout).verdict = "BUY IF NEGOTIATED LOWER"

(* C3 (amended): the scenario yields net_resale 69.6, buffer 10 (risk is   *)
(* low), estimated_profit 19.6, roi_pct 49 and verdict "BUY".              *)
C3_Scenario ==
    (Called /\ Val(din) = Scenario) =>
      /\ NetResale(Scenario.resale_range, Scenario.fees_pct) = 696000
      /\ Val(dout).buffer_usd = 10
      /\ Val(dout).estimated_profit_usd = Some(1960)
      /\ Val(dout).roi_pct = Some(49)
      /\ Val(dout).verdict = "BUY"

C3_Witness == Called /\ Val(din) = Scenario /\ Val(dout).fees_pct = 13

(* C4: the buffer is 10 / 15 / 30 for risk low / medium / high plus 10     *)
(* when confidence is low, hence one of 10, 15, 20, 25, 30, 40.            *)
C4_BufferTable ==
    Called =>
      LET a == Val(din)
          base == CASE a.risk_level = "low" -> 10
                    [] a.risk_level = "medium" -> 15
                    [] a.risk_level = "high" -> 30
          extra == IF a.confidence = "low" THEN 10 ELSE 0
      IN  /\ Val(dout).buffer_usd = base + extra
          /\ Val(dout).buffer_usd \in {10, 15, 20, 25, 30, 40}

C4_Witness ==
    /\ Called
    /\ Val(din).risk_level = "high"
    /\ Val(din).confidence = "low"
    /\ Val(dout).buffer_usd = 40

(* x is raw = n/d rounded down: to a multiple of 5 when raw >= 20, to a    *)
(* whole number otherwise.                                                 *)
IsRoundedDown(x, n, d) ==
    IF n >= 20 * d
    THEN x % 5 = 0 /\ x * d <= n /\ n < (x + 5) * d
    ELSE x * d <= n /\ n < (x + 1) * d

(* C5: with a non-null asking price, suggested_offer and max_buy are set   *)
(* only if net_resale - buffer > 0; then they are                          *)
(* (net_resale - buffer)/(1 + target_roi) and (net_resale - buffer)/1.15,  *)
(* rounded down to a multiple of 5 from 20 up and to an integer below 20   *)
(* (raw 23.7 gives 20, raw 17.9 gives 17).                                 *)
C5_Negotiation ==
    Priced =>
      LET a == Val(din)
          n == Val(dout).negotiation
          low == IF a.resale_range = Malformed THEN 0 ELSE a.resale_range[1]
          net == (IF low > 0 THEN low ELSE 0) * (100 - a.fees_pct)
          room == net - Val(dout).buffer_usd * 10000
          dOffer == 100 * (100 + a.target_roi)
          dMax == 100 * 115
      IN  /\ room <= 0 => IsNone(n.suggested_offer_usd) /\ IsNone(n.max_buy_usd)
          /\ room > 0 =>
               /\ ~IsNone(n.suggested_offer_usd)
               /\ ~IsNone(n.max_buy_usd)
               /\ IsRoundedDown(Val(n.suggested_offer_usd), room, dOffer)
               /\ IsRoundedDown(Val(n.max_buy_usd), room, dMax)
          /\ room * 10 = 237 * dOffer => n.suggested_offer_usd = Some(20)
          /\ room * 10 = 179 * dOffer => n.suggested_offer_usd = Some(17)

C5_Witness ==
    /\ Priced
    /\ Val(din).resale_range = <<4043, 5000>>
    /\ Val(din).fees_pct = 0
    /\ Val(din).risk_level = "low"
    /\ Val(din).confidence = "medium"
    /\ Val(dout).negotiation.suggested_offer_usd = Some(17)
    /\ Val(dout).negotiation.max_buy_usd = Some(25)

(* C6: with a non-null asking price, estimated_profit (a monetary output,  *)
(* held to 2 decimals) is net_resale - asking_price - buffer with          *)
(* net_resale = max(0, low) * (1 - fees_pct), and roi_pct is               *)
(* round(estimated_profit / asking_price * 100) when asking_price > 0 and  *)
(* null when asking_price <= 0.                                            *)
C6_ProfitAndRoi ==
    Priced =>
      LET a == Val(din)
          r == Val(dout)
          ap == Val(a.asking_price_usd)
          low == IF a.resale_range = Malformed THEN 0 ELSE a.resale_range[1]
          net == (IF low > 0 THEN low ELSE 0) * (100 - a.fees_pct)
          exact == net - ap * 100 - r.buffer_usd * 10000
          profit == Val(r.estimated_profit_usd)
      IN  /\ ~IsNone(r.estimated_profit_usd)
          /\ 2 * Abs(profit * 100 - exact) <= 100
          /\ ap > 0 => /\ ~IsNone(r.roi_pct)
                       /\ 2 * Abs(Val(r.roi_pct) * ap - profit * 100) <= ap
          /\ ap <= 0 => IsNone(r.roi_pct)

C6_Witness ==
    /\ Priced
    /\ Val(din).resale_range = <<-500, 1000>>
    /\ Val(din).asking_price_usd = Some(990)
    /\ Val(din).risk_level = "low"
    /\ Val(din).confidence = "high"
    /\ Val(dout).estimated_profit_usd = Some(-1990)
    /\ Val(dout).roi_pct = Some(-201)

(***************************************************************************)
(* Properties of the scout (checked under ScoutSpec).                      *)
(***************************************************************************)
Returned == sc.pc = "done" /\ ~IsNone(report)

(* every non-null price_usd of the examples of a list of ModeResults, e4 *)
PricesIn(results) ==
    { Val(results[i].examples[j].price_usd) :
        <<i, j>> \in { ij \in (1 .. Len(results)) \X (1 .. DefaultLimitEach) :
                         /\ ij[2] <= Len(results[ij[1]].examples)
                         /\ ~IsNone(results[ij[1]].examples[ij[2]].price_usd) } }

SetMin(S) == CHOOSE x \in S : \A y \in S : x <= y
SetMax(S) == CHOOSE x \in S : \A y \in S : x >= y

(* c cents is v (e4) rounded to 2 decimals *)
IsRounded2(c, v) == 2 * Abs(c * 100 - v) <= 100

(* C7 as stated: overall_sold_range is null iff no sold listing has a      *)
(* price, and otherwise equals exactly (min, max) of all sold prices.      *)
C7_OverallExact ==
    Returned =>
      LET r == Val(report)
          P == PricesIn(r.sold)
          o == r.overall_sold_price_range_usd
      IN  /\ IsNone(o) <=> P = {}
          /\ ~IsNone(o) => /\ Val(o)[1] * 100 = SetMin(P)
                           /\ Val(o)[2] * 100 = SetMax(P)

(* C7 (amended): after ebay_scout has run all queries, overall_sold_range  *)
(* is null iff no listing of any sold ModeResult has a price; otherwise it *)
(* is (min, max), each rounded to 2 decimals, over all non-null price_usd  *)
(* of every sold ModeResult; active-mode prices never contribute.          *)
C7_OverallRounded ==
    Returned =>
      LET r == Val(report)
          P == PricesIn(r.sold)
          o == r.overall_sold_price_range_usd
      IN  /\ IsNone(o) <=> P = {}
          /\ ~IsNone(o) => /\ IsRounded2(Val(o)[1], SetMin(P))
                           /\ IsRounded2(Val(o)[2], SetMax(P))

C7_Witness ==
    /\ Returned
    /\ Len(Val(report).sold) = 3
    /\ Val(report).overall_sold_price_range_usd = Some(<<1100, 129950>>)
    /\ PricesIn(Val(report).sold) = {400000, 12995000, 109990}
    /\ PricesIn(Val(report).active) = {50000}

(* The result of the i-th finished session: the active and the sold        *)
(* session of query k are the sessions 2k-1 and 2k.                         *)
ResultOf(i) ==
    LET k == (i + 1) \div 2
    IN  IF i % 2 = 0 THEN sc.sold[k]
        ELSE IF k <= Len(sc.active) THEN sc.active[k]
        ELSE Val(sc.a)

(* C9: when the navigation of a session times out, the session does not    *)
(* propagate the timeout and returns a ModeResult for its query and mode   *)
(* with no listings and a null price_range; the fetch is not retried.      *)
C9_NavTimeoutDegrades ==
    /\ sess.outcome = "nav_timeout" =>
         /\ sess.pc \in {"close_context", "close_browser", "return"}
         /\ sess.exc = "none"
         /\ sc.pc # "raised"
         /\ sess.gotos = 1
         /\ sess.examples = <<>>
    /\ sc.pc \in {"loop", "await_active", "await_sold", "done"} =>
         \A i \in 1 .. Len(log) :
            log[i] = "nav_timeout" =>
              /\ ResultOf(i).examples = <<>>
              /\ IsNone(ResultOf(i).price_range_usd)
              /\ ResultOf(i).query = sc.queries[(i + 1) \div 2]
              /\ ResultOf(i).mode = IF i % 2 = 0 THEN "sold" ELSE "active"

C9_Witness ==
    /\ Returned
    /\ web = WorldPriced
    /\ sc.queries = <<QueryLamp>>
    /\ log = <<"ok", "nav_timeout">>
    /\ Val(report).sold[1].examples = <<>>
    /\ IsNone(Val(report).sold[1].price_range_usd)

(* What session i returns when nothing interferes with it: the listings of *)
(* its own page.                                                           *)
OwnExamples(i) ==
    LET q == sc.queries[(i + 1) \div 2]
        sold == (i % 2 = 0)
    IN  Extract(web[<<q, sold>>].items, sold, sc.limit_each, <<>>)

(* C10: a timeout of one (query, mode) session never cancels or alters     *)
(* another: whichever sessions time out, the scout is never aborted by a   *)
(* timeout, every other session runs to completion with the ModeResult of  *)
(* its own page, and its sold prices lie within overall_sold_range.        *)
C10_TimeoutIsolation ==
    /\ sc.pc = "raised" => sess.outcome \in {"pending", "error"}
    /\ sc.pc \in {"loop", "await_active", "await_sold", "done"} =>
         \A i \in 1 .. Len(log) :
            log[i] = "ok" =>
              /\ ResultOf(i).examples = OwnExamples(i)
              /\ ResultOf(i).price_range_usd \in _min_max(PricesOf(OwnExamples(i)))
              /\ ResultOf(i).query = sc.queries[(i + 1) \div 2]
              /\ ResultOf(i).mode = IF i % 2 = 0 THEN "sold" ELSE "active"
    /\ Returned =>
         /\ Len(log) = 2 * Len(sc.queries)
         /\ Val(report).active = sc.active
         /\ Val(report).sold = sc.sold
         /\ \A i \in 1 .. Len(log) :
               (log[i] = "ok" /\ i % 2 = 0) =>
                 \A j \in 1 .. Len(OwnExamples(i)) :
                    ~IsNone(OwnExamples(i)[j].price_usd) =>
                      LET o == Val(report).overall_sold_price_range_usd
                          v == Val(OwnExamples(i)[j].price_usd)
                      IN  /\ ~IsNone(o)
                          /\ Val(o)[1] * 100 <= v + 50
                          /\ v - 50 <= Val(o)[2] * 100

C10_Witness ==
    /\ Returned
    /\ web = WorldPriced
    /\ sc.queries = <<QueryLamp, QueryVase, QueryOther>>
    /\ log = <<"nav_timeout", "ok", "ok", "extract_timeout", "nav_timeout", "ok">>
    /\ Val(report).overall_sold_price_range_usd = Some(<<4000, 129950>>)
    /\ Len(Val(report).sold[1].examples) = 2

(***************************************************************************)
(* Properties of the describe handler (checked under Spec).                *)
(***************************************************************************)
Answered == desc.pc = "done" /\ ~IsNone(response) /\ Val(response).ok

(* the resale range the vision answer supplied, [0, 0] when it has none *)
VisionRange ==
    LET v == Val(desc.vision)
    IN  IF IsNone(v.market_estimate) THEN <<0, 0>>
        ELSE IF IsNone(Val(v.market_estimate).resale_price_range_usd) THEN <<0, 0>>
        ELSE Val(Val(v.market_estimate).resale_price_range_usd)

(* C8: in deep mode, whenever the scout finds no sold price                *)
(* (overall_sold_range is null), the deal is computed from the             *)
(* vision-supplied resale range with confidence forced to low, whatever    *)
(* the vision confidence was, and a note about the missing comparables is  *)
(* appended to the notes.                                                  *)
C8_NoCompsFallback ==
    (/\ Answered
     /\ IsDeep(Val(req).mode)
     /\ ~IsNone(report)
     /\ IsNone(Val(report).overall_sold_price_range_usd)) =>
       /\ ~IsNone(din) /\ ~IsNone(dout)
       /\ Val(din).resale_range = VisionRange
       /\ Val(din).confidence = "low"
       /\ Val(response).market_estimate.confidence = Some("low")
       /\ Val(response).deal_analysis = Val(dout)
       /\ Val(dout).buffer_usd =
            (CASE Val(din).risk_level = "low" -> 10
               [] Val(din).risk_level = "high" -> 30
               [] OTHER -> 15) + 10
       /\ Val(response).notes = Append(Val(desc.vision).notes, NoteNoComps)

C8_Witness ==
    /\ Answered
    /\ IsDeep(Val(req).mode)
    /\ web = WorldNoComps
    /\ Len(sc.queries) = 2
    /\ ~IsNone(report)
    /\ IsNone(Val(report).overall_sold_price_range_usd)
    /\ ~IsNone(Val(desc.vision).market_estimate)
    /\ Val(Val(desc.vision).market_estimate).confidence = Some("high")
    /\ Val(din).resale_range = <<8000, 12000>>
    /\ Val(din).confidence = "low"
    /\ Val(response).notes = <<NoteNoComps>>

(***************************************************************************)
(* C11: on every exit path of _search_ebay (success, navigation timeout,   *)
(* or an error raised while creating the context, loading or extracting)   *)
(* the browser and the context it opened are closed before the call        *)
(* returns or raises: no finished session has its browser or its context   *)
(* still open.  browser / context are set by launch() / new_context() and  *)
(* cleared only by the close() calls of the finally (lines 98-100).        *)
(***************************************************************************)
SessionFinished == sess.pc \in {"return", "raised"}

C12_NoFailureAborts ==
    /\ sc.pc # "raised"
    /\ desc.pc # "aborted"

(***************************************************************************)
(* C13: _parse_price_to_usd never throws; it returns null when the text    *)
(* has no digit, and otherwise the value of the first maximal substring    *)
(* matching [0-9]+(\.[0-9]+)? of the text with all commas removed, so      *)
(* that "$1,299.50" gives 1299.50 and "$10 to $15" gives 10.               *)
(***************************************************************************)
Parsed == pout # <<>>

(* the text without its commas, character by character *)
Uncomma(t) ==
    LET keep == { i \in 1 .. Len(t) : t[i] # "," }
        nth(k) == CHOOSE i \in keep : Cardinality({ j \in keep : j < i }) = k - 1
    IN  [k \in 1 .. Cardinality(keep) |-> t[nth(k)]]

AllDigits(t, a, b) == a <= b /\ \A i \in a .. b : t[i] \in Digits

(* t[a .. b] matches [0-9]+(\.[0-9]+)? with the integer part ending at k *)
IsNumeral(t, a, k, b) ==
    /\ AllDigits(t, a, k)
    /\ \/ k = b
       \/ k + 2 <= b /\ t[k + 1] = "." /\ AllDigits(t, k + 2, b)

Numerals(t) ==
    { m \in (1 .. Len(t)) \X (1 .. Len(t)) \X (1 .. Len(t)) : IsNumeral(t, m[1], m[2], m[3]) }

(* the first maximal numeral: the leftmost start, then the longest match *)
FirstNumeral(t) ==
    CHOOSE m \in Numerals(t) :
        \A n \in Numerals(t) : m[1] < n[1] \/ (m[1] = n[1] /\ m[3] >= n[3])

(* its decimal value in 1/10000 *)
NumeralValue(t, m) ==
    DigitsValue(SubSeq(t, m[1], m[2])) * 10000
    + (IF m[3] = m[2] THEN 0
       ELSE DigitsValue(SubSeq(t, m[2] + 2, m[3])) * Pow10(4 - (m[3] - m[2] - 1)))

C13_ParserContract ==
    Parsed =>
        LET t == Uncomma(ptext)
            r == pout[1]
        IN  /\ (\A i \in 1 .. Len(ptext) : ptext[i] \notin Digits) => r = None
            /\ (\E i \in 1 .. Len(ptext) : ptext[i] \in Digits)
                  => r = Some(NumeralValue(t, FirstNumeral(t)))
            /\ ptext = Price1299 => r = Some(12995000)
            /\ ptext = Price10to15 => r = Some(100000)

(* a text with a thousands separator and decimals has been parsed *)
C13_Witness ==
    /\ Parsed
    /\ ptext = Price1299
    /\ pout[1] = Some(12995000)

(***************************************************************************)
(* C14: for every input query list, the queries actually scouted           *)
(* (queries_used) are at most 3, each non-empty, trimmed and               *)
(* whitespace-collapsed, and no two of them are equal when compared        *)
(* case-insensitively.                                                     *)
(***************************************************************************)
Scouting == sc.pc \notin {"idle", "call"}

Trimmed(q) == q # <<>> /\ ~IsSpace(q[1]) /\ ~IsSpace(q[Len(q)])

Collapsed(q) == \A i \in 1 .. Len(q) - 1 : ~(IsSpace(q[i]) /\ IsSpace(q[i + 1]))

Distinct(qs) == \A i, j \in 1 .. Len(qs) : i # j => Lower(qs[i]) # Lower(qs[j])

Normalised(qs) ==
    /\ \A i \in 1 .. Len(qs) : Trimmed(qs[i]) /\ Collapsed(qs[i])
    /\ Distinct(qs)

Ordered(r) == Len(r) = 2 => r[1] <= r[2]

OrderedOpt(o) == IsNone(o) \/ Ordered(Val(o))

ResultOrdered(res) ==
    /\ OrderedOpt(res.price_range_usd)
    /\ \A i \in 1 .. Len(res.examples) :
          IsNone(res.examples[i].price_usd) \/ Val(res.examples[i].price_usd) >= 0

C15_RangesOrdered ==
    /\ \A i \in 1 .. Len(sc.active) : ResultOrdered(sc.active[i])
    /\ \A i \in 1 .. Len(sc.sold) : ResultOrdered(sc.sold[i])
    /\ ~IsNone(report) => OrderedOpt(Val(report).overall_sold_price_range_usd)
    /\ ~IsNone(din) => Ordered(Val(din).resale_range)

(***************************************************************************)
(* C16: the listings one session returns number at most limit_each, are in *)
(* page order, and each has a non-empty title that is not "shop on ebay"   *)
(* (case-insensitive) and a non-empty url; entries failing these checks    *)
(* are skipped without counting toward the limit, an entry whose price     *)
(* text does not parse is kept with price_usd null, and a sold_date is     *)
(* attached only in sold mode.                                             *)
(***************************************************************************)
Extracted == sess.pc \in {"close_context", "close_browser", "return", "raised"} /\ ~IsNone(sess.page)

IsListing(it) ==
    /\ ~IsNone(it.title) /\ ~IsNone(it.href)
    /\ Val(it.href) # ""
    /\ \E i \in 1 .. Len(Val(it.title)) : ~IsSpace(Val(it.title)[i])
    /\ Lower(Strip(Val(it.title))) # ShopOnEbay

ListingIdx(items) == { i \in 1 .. Len(items) : IsListing(items[i]) }

(* the k-th listing of the page, in page order *)
NthListing(items, k) ==
    items[CHOOSE i \in ListingIdx(items) : Cardinality({ j \in ListingIdx(items) : j < i }) = k - 1]

HasDigit(t) == \E i \in 1 .. Len(t) : t[i] \in Digits

IsExampleOf(ex, it, sold) ==
    /\ ex.title = Strip(Val(it.title)) /\ ex.title # <<>> /\ Lower(ex.title) # ShopOnEbay
    /\ ex.url = Val(it.href) /\ ex.url # ""
    /\ ex.raw_price = (IF IsNone(it.price) THEN <<>> ELSE Strip(Val(it.price)))
    /\ IsNone(ex.price_usd) <=> ~HasDigit(ex.raw_price)
    /\ ~sold => IsNone(ex.sold_date)
    /\ ~IsNone(ex.sold_date) => ~IsNone(it.ended) /\ Val(ex.sold_date) = Strip(Val(it.ended))

C16_ListingsExtracted ==
    Extracted =>
        LET items == Val(sess.page).items
            exs == sess.examples
            n == Cardinality(ListingIdx(items))
        IN  /\ Len(exs) <= sess.limit
            /\ Len(exs) <= n
            /\ \A k \in 1 .. Len(exs) : IsExampleOf(exs[k], NthListing(items, k), sess.sold)
            /\ sess.outcome = "ok" => Len(exs) = (IF n < sess.limit THEN n ELSE sess.limit)

(* a sold page whose first entry is the placeholder and which has more     *)
(* listings than the limit has been extracted                              *)
C16_Witness ==
    /\ Extracted
    /\ sess.outcome = "ok"
    /\ sess.sold
    /\ Val(sess.page) = PageTwo
    /\ sess.limit = 1
    /\ Len(sess.examples) = 1
    /\ sess.examples[1].title = TitleLamp
    /\ sess.examples[1].sold_date = Some(Ended)

(***************************************************************************)
(* C17: in deep mode, whenever the scout returns a non-null overall sold   *)
(* range [lo, hi], the resale range handed to _deal_math is                *)
(* [int(lo), int(hi)], the confidence is high if the vision confidence was *)
(* high and medium otherwise, and the no-comparables note is not added;    *)
(* the vision range is used only when the scout range is null.             *)
(***************************************************************************)
DeepAnswered == Answered /\ IsDeep(Val(req).mode) /\ ~IsNone(report) /\ ~IsNone(din)

ScoutRange == Val(report).overall_sold_price_range_usd

(* int() of a non-negative price in cents *)
Truncated(c) == c - (c % 100)

VisionHigh ==
    /\ ~IsNone(Val(desc.vision).market_estimate)
    /\ Val(Val(desc.vision).market_estimate).confidence = Some("high")

Anchored ==
    /\ Val(din).resale_range = <<Truncated(Val(ScoutRange)[1]), Truncated(Val(ScoutRange)[2])>>
    /\ Val(din).confidence = (IF VisionHigh THEN "high" ELSE "medium")
    /\ Val(response).notes = Val(desc.vision).notes

FellBack ==
    /\ Val(din).resale_range = VisionRange
    /\ Val(din).confidence = "low"
    /\ Val(response).notes = Append(Val(desc.vision).notes, NoteNoComps)

C17_ScoutAnchors ==
    DeepAnswered /\ ~IsNone(ScoutRange) => Anchored

(* C17 as amended: the same for every scout range that is non-null and not *)
(* [0, 0]; the vision range is used only when the scout range is null or   *)
(* [0, 0].                                                                 *)
C17_UsableScoutAnchors ==
    DeepAnswered =>
        IF ~IsNone(ScoutRange) /\ Val(ScoutRange) # <<0, 0>>
        THEN Anchored
        ELSE FellBack

(* sold prices 40.00 and 1299.50 anchor a vision estimate of medium        *)
(* confidence                                                              *)
C17_Witness ==
    /\ DeepAnswered
    /\ ScoutRange = Some(<<4000, 129950>>)
    /\ ~VisionHigh
    /\ Val(din).resale_range = <<4000, 129900>>
    /\ Val(din).confidence = "medium"

(***************************************************************************)
(* C18: with the default target_roi of 0.70 and any fees_pct in [0, 1],    *)
(* whenever the negotiation plan has a non-null roi_if_offer_pct it is at  *)
(* least 70, and suggested_offer <= max_buy whenever both are non-null:    *)
(* both figures are only ever rounded down.                                *)
(***************************************************************************)
C18_OfferMeetsTarget ==
    (Called /\ Val(din).target_roi = 70) =>
        LET n == Val(dout).negotiation
        IN  /\ ~IsNone(n.roi_if_offer_pct) => Val(n.roi_if_offer_pct) >= 70
            /\ (~IsNone(n.suggested_offer_usd) /\ ~IsNone(n.max_buy_usd))
                  => Val(n.suggested_offer_usd) <= Val(n.max_buy_usd)

(* an offer rounded down to a multiple of 5 that lands on the target ROI,  *)
(* below the maximum buy price                                             *)
C18_Witness ==
    /\ Called
    /\ Val(din).target_roi = 70
    /\ Val(din).fees_pct = 13
    /\ Val(dout).negotiation.suggested_offer_usd = Some(35)
    /\ Val(dout).negotiation.max_buy_usd = Some(50)
    /\ Val(dout).negotiation.roi_if_offer_pct = Some(70)

(***************************************************************************)
(* C19: a license key is bound to at most one device for its whole         *)
(* lifetime: under any interleaving of bind_license_to_device calls for an *)
(* existing license, once its device_id is set to d it never changes, and  *)
(* calls for two different devices never both return success (BOUND_OK or  *)
(* ALREADY_BOUND) for the same license key.                                *)
(***************************************************************************)
BoundDevice(k) == IF IsNone(licenses[k]) THEN None ELSE Val(licenses[k]).device_id

(* Every call that returned success for a key was for the device the key   *)
(* is bound to now: a device_id that changed, or successes for two         *)
(* devices, leave a successful call for another device in the history.     *)
C19_OneDevicePerLicense ==
    \A r \in bindlog :
        r.ok => /\ r.status \in {"BOUND_OK", "ALREADY_BOUND"}
                /\ BoundDevice(r.license_key) = Some(r.device_id)

(***************************************************************************)
(* C20: for a free-plan device (no paid license, no e-mail), when every    *)
(* request calls check_limit and calls register_usage only if it was       *)
(* allowed, the total usage count never exceeds FREE_TOTAL_LIMIT (5)       *)
(* under any interleaving of concurrent requests, and check_limit reports  *)
(* allowed exactly when the count it read is below the limit               *)
(* (remaining = max(0, limit - used) > 0).                                 *)
(***************************************************************************)
FreeDevice == ~is_device_paid(LimitDevice) /\ IsNone(device_email[LimitDevice])

C20_FreeLimitHolds ==
    FreeDevice =>
        /\ CountOf(usage_total, LimitDevice) <= 5
        /\ \A p \in Procs :
              ~IsNone(lim[p].status) =>
                  LET st == Val(lim[p].status)
                  IN  /\ st.plan = "free"
                      /\ st.allowed <=> lim[p].used < 5
                      /\ st.remaining = (IF lim[p].used < 5 THEN 5 - lim[p].used ELSE 0)

====
